---- MODULE Spec2Model ----
(***************************************************************************)
(* Model of rs_fast_image_viewer: the image catalog (ImageHandler), the    *)
(* natural-order comparator, the window sizing policy and the viewer's     *)
(* event handlers.                                                         *)
(***************************************************************************)
EXTENDS Integers, Sequences, FiniteSets, TLC

(***************************************************************************)
(* Characters and names.  A name is a sequence of one-character strings;   *)
(* Code gives the code point of each character that occurs in the model.   *)
(***************************************************************************)
Code ==
  ("-" :> 45) @@ ("." :> 46) @@ ("0" :> 48) @@ ("1" :> 49) @@ ("2" :> 50) @@ ("3" :> 51) @@
  ("4" :> 52) @@ ("5" :> 53) @@ ("6" :> 54) @@ ("7" :> 55) @@ ("8" :> 56) @@
  ("9" :> 57) @@
  ("G" :> 71) @@ ("N" :> 78) @@ ("P" :> 80) @@
  ("a" :> 97) @@ ("d" :> 100) @@ ("e" :> 101) @@ ("f" :> 102) @@
  ("g" :> 103) @@ ("i" :> 105) @@ ("j" :> 106) @@ ("l" :> 108) @@
  ("n" :> 110) @@ ("p" :> 112) @@ ("s" :> 115) @@ ("t" :> 116) @@
  ("w" :> 119) @@ ("b" :> 98) @@ ("x" :> 120)

\* char::is_ascii_digit
IsAsciiDigit(ch) == Code[ch] >= 48 /\ Code[ch] <= 57

\* char::to_lowercase restricted to ASCII
LowerChar(ch) ==
  IF Code[ch] >= 65 /\ Code[ch] <= 90
    THEN CHOOSE c \in DOMAIN Code : Code[c] = Code[ch] + 32
    ELSE ch

\* str::to_lowercase
ToLowercase(s) == [i \in 1..Len(s) |-> LowerChar(s[i])]

\* Ord::cmp that returns Equal where it should return Less
IntCmpNeverLess(x, y) == IF x > y THEN "Greater" ELSE "Equal"

\* Ord::cmp on integers
IntCmp(x, y) == IF x < y THEN "Less" ELSE IF x > y THEN "Greater" ELSE "Equal"

\* String::cmp: lexicographic comparison by code point
RECURSIVE StrCmpFrom(_, _, _)
StrCmpFrom(a, b, i) ==
  IF i > Len(a) /\ i > Len(b) THEN "Equal"
  ELSE IF i > Len(a) THEN "Less"
  ELSE IF i > Len(b) THEN "Greater"
  ELSE IF Code[a[i]] # Code[b[i]] THEN IntCmp(Code[a[i]], Code[b[i]])
  ELSE StrCmpFrom(a, b, i + 1)

StrCmp(a, b) == StrCmpFrom(a, b, 1)

(***************************************************************************)
(* extract_number.  A u64 is represented by its decimal digits without     *)
(* leading zeros (the empty sequence is 0), so that the 64-bit range of    *)
(* str::parse::<u64> is modelled exactly.                                  *)
(***************************************************************************)
U64MaxDigits ==
  <<"1","8","4","4","6","7","4","4","0","7","3","7","0","9","5","5","1","6","1","5">>

\* end (exclusive) of the maximal digit run of s that starts at position i
RECURSIVE DigitRunEnd(_, _)
DigitRunEnd(s, i) ==
  IF i <= Len(s) /\ IsAsciiDigit(s[i]) THEN DigitRunEnd(s, i + 1) ELSE i

RECURSIVE StripZeros(_)
StripZeros(d) ==
  IF d # <<>> /\ d[1] = "0" THEN StripZeros(Tail(d)) ELSE d

\* comparison of two canonical digit strings as unsigned numbers
NumCmp(x, y) ==
  IF Len(x) # Len(y) THEN IntCmp(Len(x), Len(y)) ELSE StrCmp(x, y)

\* number_str.parse::<u64>().unwrap_or(0)
ParseU64OrZero(d) ==
  LET c == StripZeros(d)
  IN  IF NumCmp(c, U64MaxDigits) = "Greater" THEN <<>> ELSE c

\* the value extract_number returns for the digit run of s starting at i
extract_number(s, i) == ParseU64OrZero(SubSeq(s, i, DigitRunEnd(s, i) - 1))

\* natural_sort_compare, with the two peekable iterators at positions i and j
RECURSIVE NaturalFrom(_, _, _, _)
NaturalFrom(a, b, i, j) ==
  IF i > Len(a) /\ j > Len(b) THEN "Equal"
  ELSE IF i > Len(a) THEN "Less"
  ELSE IF j > Len(b) THEN "Greater"
  ELSE IF IsAsciiDigit(a[i]) /\ IsAsciiDigit(b[j])
    THEN LET o == NumCmp(extract_number(a, i), extract_number(b, j))
         IN  IF o = "Equal"
               THEN NaturalFrom(a, b, DigitRunEnd(a, i), DigitRunEnd(b, j))
               ELSE o
    ELSE LET o == IntCmp(Code[a[i]], Code[b[j]])
         IN  IF o = "Equal" THEN NaturalFrom(a, b, i + 1, j + 1) ELSE o

\* natural_sort_compare without the digit branch: plain character comparison
natural_sort_compare_chars_only(a, b) == StrCmp(a, b)

natural_sort_compare(a, b) == NaturalFrom(a, b, 1, 1)

(***************************************************************************)
(* Files.  Option values are sequences of length 0 (None) or 1 (Some).     *)
(***************************************************************************)
None == <<>>
Some(x) == <<x>>

\* Option<SystemTime>::cmp: None is less than any Some
OptionCmp(x, y) ==
  IF x = None THEN (IF y = None THEN "Equal" ELSE "Less")
  ELSE IF y = None THEN "Greater"
  ELSE IntCmp(x[1], y[1])

SUPPORTED_EXTENSIONS ==
  { <<"j","p","g">>, <<"j","p","e","g">>, <<"p","n","g">>,
    <<"w","e","b","p">>, <<"p","s","d">> }

\* position of the last '.' of a name, 0 when there is none
LastDot(name) ==
  LET dots == { i \in 1..Len(name) : name[i] = "." }
  IN  IF dots = {} THEN 0 ELSE CHOOSE i \in dots : \A k \in dots : k <= i

\* Path::extension: nothing for a name without '.', or whose only '.' is its
\* first character
Extension(name) ==
  IF LastDot(name) <= 1 THEN None
  ELSE Some(SubSeq(name, LastDot(name) + 1, Len(name)))

\* is_supported_format without the to_lowercase: upper-case extensions are lost
is_supported_format_case_sensitive(name) ==
  IF Extension(name) # None
    THEN Extension(name)[1] \in SUPPORTED_EXTENSIONS
    ELSE FALSE

is_supported_format(name) ==
  IF Extension(name) # None
    THEN ToLowercase(Extension(name)[1]) \in SUPPORTED_EXTENSIONS
    ELSE FALSE

SortAlgorithms == {"FileName", "FileNameNatural", "CreatedTime", "ModifiedTime"}

\* the comparator sort_images hands to sort_by
Compare(alg, a, b) ==
  CASE alg = "FileName"        -> StrCmp(a.name, b.name)
    [] alg = "FileNameNatural" -> natural_sort_compare(a.name, b.name)
    [] alg = "CreatedTime"     -> OptionCmp(a.created, b.created)
    [] alg = "ModifiedTime"    -> OptionCmp(a.modified, b.modified)

\* slice::sort_by is a stable sort: insert x behind every element that is
\* not greater than it
RECURSIVE InsertTail(_, _, _)
InsertTail(alg, sorted, x) ==
  IF sorted # <<>> /\ Compare(alg, x, sorted[Len(sorted)]) = "Less"
    THEN Append(InsertTail(alg, SubSeq(sorted, 1, Len(sorted) - 1), x),
                sorted[Len(sorted)])
    ELSE Append(sorted, x)

RECURSIVE SortFrom(_, _, _)
SortFrom(alg, files, sorted) ==
  IF files = <<>> THEN sorted
  ELSE SortFrom(alg, Tail(files), InsertTail(alg, sorted, Head(files)))

sort_images(alg, files) == SortFrom(alg, files, <<>>)

(***************************************************************************)
(* The host file system.  A directory entry carries what the program can   *)
(* observe of it: its name, whether Path::is_file holds, whether the       *)
(* metadata read of ImageFile::new succeeds, its two timestamps and what   *)
(* the pixel decoder returns for it (nothing, or the image dimensions).    *)
(***************************************************************************)
Entry(n, k, m, c, t, i) ==
  [name |-> n, kind |-> k, meta |-> m, created |-> c, modified |-> t, img |-> i]

File1     == Entry(<<"f","i","l","e","1",".","j","p","g">>, "file", "ok",
                   Some(3), Some(1), Some(<<200, 100>>))
File10    == Entry(<<"f","i","l","e","1","0",".","j","p","g">>, "file", "ok",
                   Some(1), Some(2), Some(<<8000, 4000>>))
File2     == Entry(<<"f","i","l","e","2",".","j","p","g">>, "file", "ok",
                   Some(2), Some(2), None)
File01    == Entry(<<"f","i","l","e","0","1",".","j","p","g">>, "file", "ok",
                   Some(1), Some(4), Some(<<1000, 700>>))
UpperPng  == Entry(<<"a",".","P","N","G">>, "file", "ok",
                   None, Some(5), Some(<<1000, 700>>))
WebpNoTs  == Entry(<<"b",".","w","e","b","p">>, "file", "ok",
                   None, None, Some(<<1, 10000>>))
PrefixPng == Entry(<<"f","i","l","e","1",".","j","p","g",".","p","n","g">>,
                   "file", "ok", Some(4), Some(3), Some(<<640, 480>>))
NoteTxt   == Entry(<<"n","o","t","e",".","t","x","t">>, "file", "ok",
                   Some(5), Some(5), None)
NoExt     == Entry(<<"j","p","g">>, "file", "ok", Some(6), Some(6), None)
Hidden    == Entry(<<".","j","p","g">>, "file", "ok", Some(7), Some(7), None)
DirPsd    == Entry(<<"d",".","p","s","d">>, "dir", "ok", Some(8), Some(8), None)
GonePng   == Entry(<<"g","o","n","e",".","p","n","g">>, "file", "err",
                   Some(9), Some(9), None)

Universe ==
  { File1, File10, File2, File01, UpperPng, WebpNoTs, PrefixPng,
    NoteTxt, NoExt, Hidden, DirPsd, GonePng }

\* largest number of entries of a modelled directory
MaxDirSize == 2

Dirs == {"A", "B"}

\* a directory that does not exist: fs::read_dir fails on it
MissingDir == "Z"

\* the path of a directory (empty name), of an entry, and the root path,
\* which has no parent
DirPath(d) == [dir |-> d, name |-> <<>>]
FilePath(d, n) == [dir |-> d, name |-> n]
RootPath == [dir |-> "", name |-> <<>>]

\* a supported name that no directory holds: a file that has vanished
Vanished == <<"x",".","j","p","g">>

\* the directory of three numbered images, with a text file
NumberedDir == {File1, File10, File2, NoteTxt}

\* the file systems of the catalog specification: directory A is any set of
\* at most MaxDirSize entries or the numbered directory, and directory B
\* holds one image
CatalogFileSystems ==
  { [d \in Dirs |-> IF d = "A" THEN a ELSE {UpperPng}] :
      a \in { s \in SUBSET Universe : Cardinality(s) <= MaxDirSize }
             \cup {NumberedDir} }

\* the enumeration orders fs::read_dir may produce for a set of entries
Orders(S) ==
  { o \in [1..Cardinality(S) -> S] :
      \A i, j \in 1..Cardinality(S) : i # j => o[i] # o[j] }

VARIABLES
  fs,             \* host: the content of each directory
  sort_algorithm, \* Config::sort_algorithm
  images,         \* ImageHandler::images
  current_index,  \* ImageHandler::current_index
  lastOp,         \* the operation that ran last
  lastOk,         \* whether it returned Ok
  lastArg,        \* the path it was given
  min_window_size,\* Config::min_window_size
  desktop_size,   \* host: what get_desktop_size returns
  phase,          \* who owns the handler: "handler" (the caller), "viewer"
                  \* (an ImageViewer, event loop running), "done" (loop ended)
  window,         \* ImageViewer::window is Some
  gpu,            \* surface, device, queue, pipeline, sampler, buffers are Some
  config,         \* ImageViewer::config: the surface width and height
  current_texture,\* ImageViewer::current_texture
  title,          \* the title of the window
  requested,      \* the last size passed to Window::request_inner_size
  exiting,        \* ActiveEventLoop::exit has been called
  crashed,        \* the process panicked
  lastReload,     \* what load_current_image did in the last step
  lastImage,      \* the dimensions of the image load_texture was given last
  redraw_requested,\* Window::request_redraw is pending
  exit_code,      \* the exit code of the process, once it has ended
  lastEvent,      \* the event the host delivered in the last step
  lastConfigure,  \* the size Surface::configure was given in the last step
  frame,          \* what render recorded and presented in the last step
  resident,       \* the number of image textures alive on the device
  names,          \* three names given to natural_sort_compare
  orderings       \* what natural_sort_compare returned for them

catalogVars == <<images, current_index>>
callVars == <<lastOp, lastOk, lastArg>>
\* what no handler of the catalog or of the viewer changes: the host, the
\* configuration, and the names and results of the comparator on its own
envVars ==
  <<fs, sort_algorithm, min_window_size, desktop_size, names, orderings>>
viewerVars ==
  <<phase, window, gpu, config, current_texture, title, requested, exiting,
    crashed, lastReload, lastImage, redraw_requested, exit_code, lastEvent,
    lastConfigure, frame, resident>>
vars == <<envVars, catalogVars, callVars, viewerVars>>

\* ImageFile::new for an entry of directory d
ImageFile(d, e) ==
  [path |-> FilePath(d, e.name), name |-> e.name,
   created |-> e.created, modified |-> e.modified]

\* the entries of the scan loop that are pushed to image_files
Accepted(e) == e.kind = "file" /\ is_supported_format(e.name) /\ e.meta = "ok"

RECURSIVE Collect(_, _)
Collect(d, order) ==
  IF order = <<>> THEN <<>>
  ELSE IF Accepted(Head(order))
    THEN <<ImageFile(d, Head(order))>> \o Collect(d, Tail(order))
    ELSE Collect(d, Tail(order))

\* load_images_from_directory on directory d, whose entries read_dir yields
\* in the given order; entryErr tells that read_dir reports one of them as an
\* error.  The result is Ok with the new images, or Err.
load_images_from_directory(d, order, entryErr) ==
  IF d \notin DOMAIN fs \/ entryErr
    THEN [ok |-> FALSE, images |-> images]
    ELSE [ok |-> TRUE, images |-> sort_images(sort_algorithm, Collect(d, order))]

\* index of the first image whose path is p, or 0
FindTarget(imgs, p) ==
  LET hits == { i \in 1..Len(imgs) : imgs[i].path = p }
  IN  IF hits = {} THEN 0 ELSE CHOOSE i \in hits : \A k \in hits : i <= k

\* next_image that stops at the last record instead of wrapping around
NextIndexNoWrap(c, n) == IF c + 1 < n THEN c + 1 ELSE c

\* (current_index + 1) % len
NextIndex(c, n) == (c + 1) % n

\* previous_image that stops at the first record instead of wrapping around
PreviousIndexNoWrap(c, n) == IF c = 0 THEN 0 ELSE c - 1

\* len - 1 at index 0, else current_index - 1
PreviousIndex(c, n) == IF c = 0 THEN n - 1 ELSE c - 1

\* ImageHandler::current_image: images.get(current_index)
current_image ==
  IF current_index < Len(images) THEN Some(images[current_index + 1]) ELSE None

\* the comparator has not been called on its own
NoCompare ==
  /\ names = <<(<<>>), (<<>>), (<<>>)>>
  /\ orderings = None

InitCatalog ==
  /\ images = <<>>
  /\ current_index = 0
  /\ lastOp = "new"
  /\ lastOk = TRUE
  /\ lastArg = RootPath

\* Config::default: min_window_size
DefaultMinWindowSize == <<800, 600>>

\* get_desktop_size on a host that is not Windows
DefaultDesktopSize == <<1920, 1080>>

\* the window title set at creation, and the text update_window_title
\* appends to the file name
AppTitle == <<"rs_fast_image_viewer">>
TitleSuffix == <<" - rs_fast_image_viewer">>

\* no event has been delivered
NoEvent == [kind |-> "none"]

\* ImageViewer::new: no window, no GPU resource, no texture
InitViewer ==
  /\ phase = "handler"
  /\ window = FALSE
  /\ gpu = FALSE
  /\ config = None
  /\ current_texture = None
  /\ title = None
  /\ requested = None
  /\ exiting = FALSE
  /\ crashed = FALSE
  /\ lastReload = "none"
  /\ lastImage = None
  /\ redraw_requested = FALSE
  /\ exit_code = None
  /\ lastEvent = NoEvent
  /\ lastConfigure = None
  /\ frame = None
  /\ resident = 0

Init ==
  /\ fs \in CatalogFileSystems
  /\ sort_algorithm \in SortAlgorithms
  /\ min_window_size = DefaultMinWindowSize
  /\ desktop_size = DefaultDesktopSize
  /\ InitCatalog
  /\ NoCompare
  /\ InitViewer

\* the read_dir outcomes of directory d: the entries in some order, or an
\* error on one of the entries
ScanOutcomes(d) ==
  IF d \in DOMAIN fs
    THEN { <<o, FALSE>> : o \in Orders(fs[d]) } \cup
         (IF fs[d] # {} THEN { <<(<<>>), TRUE>> } ELSE {})
    ELSE { <<(<<>>), FALSE>> }

Populate(d) ==
  \E sc \in ScanOutcomes(d) :
    LET r == load_images_from_directory(d, sc[1], sc[2])
    IN  /\ phase = "handler"
        /\ images' = r.images
        /\ current_index' = current_index
        /\ lastOp' = "populate"
        /\ lastOk' = r.ok
        /\ lastArg' = DirPath(d)
        /\ UNCHANGED <<envVars, viewerVars>>

\* load_images_with_target on path p: Err for a path without parent, else
\* the result of scanning the parent and the index of p when it is found
load_images_with_target(p, order, entryErr) ==
  LET r == IF p = RootPath
             THEN [ok |-> FALSE, images |-> images]
             ELSE load_images_from_directory(p.dir, order, entryErr)
      t == FindTarget(r.images, p)
  IN  [ok |-> r.ok, images |-> r.images,
       index |-> IF r.ok /\ t > 0 THEN t - 1 ELSE current_index]

PopulateWithTarget(p) ==
  \E sc \in ScanOutcomes(p.dir) :
    LET r == load_images_with_target(p, sc[1], sc[2])
    IN  /\ phase = "handler"
        /\ images' = r.images
        /\ current_index' = r.index
        /\ lastOp' = "populateWithTarget"
        /\ lastOk' = r.ok
        /\ lastArg' = p
        /\ UNCHANGED <<envVars, viewerVars>>

\* next_image without the is_empty guard
next_image_unguarded ==
  /\ current_index' = (current_index + 1) % (IF images # <<>> THEN Len(images) ELSE 2)
  /\ images' = images

next_image ==
  /\ current_index' = IF images # <<>> THEN NextIndex(current_index, Len(images))
                                      ELSE current_index
  /\ images' = images

previous_image ==
  /\ current_index' = IF images # <<>> THEN PreviousIndex(current_index, Len(images))
                                      ELSE current_index
  /\ images' = images

NextImage ==
  /\ phase = "handler"
  /\ next_image
  /\ lastOp' = "next"
  /\ lastOk' = TRUE
  /\ lastArg' = RootPath
  /\ UNCHANGED <<envVars, viewerVars>>

PreviousImage ==
  /\ phase = "handler"
  /\ previous_image
  /\ lastOp' = "previous"
  /\ lastOk' = TRUE
  /\ lastArg' = RootPath
  /\ UNCHANGED <<envVars, viewerVars>>

\* the paths a caller may pass: a directory or a missing directory; an entry
\* of a directory, a file that has vanished from it, or the root
DirArgs == Dirs \cup {MissingDir}
TargetArgs ==
  UNION { { FilePath(d, e.name) : e \in fs[d] } : d \in Dirs } \cup
  { FilePath("A", Vanished), RootPath }

Next ==
  \/ \E d \in DirArgs : Populate(d)
  \/ \E p \in TargetArgs : PopulateWithTarget(p)
  \/ NextImage
  \/ PreviousImage

Spec == Init /\ [][Next]_vars

(***************************************************************************)
(* Single-precision arithmetic of the sizing policy.  A positive f32 is a  *)
(* pair <<m, e>> with value m * 2^e and 2^23 <= m < 2^24; every operation  *)
(* rounds to nearest, ties to even, as the hardware does.  All numbers the *)
(* operators handle stay below 2^31.                                       *)
(***************************************************************************)
Pow2(n) == 2 ^ n

\* number of binary digits of n >= 1
RECURSIVE BitLen(_)
BitLen(n) == IF n <= 1 THEN 1 ELSE 1 + BitLen(n \div 2)

\* u32 as f32, exact for 1 <= n < 2^24
F32FromU32(n) == <<n * Pow2(24 - BitLen(n)), BitLen(n) - 24>>

\* f32 as u32: truncation toward zero
F32ToU32(x) ==
  IF x[2] >= 0 THEN x[1] * Pow2(x[2])
  ELSE IF x[2] <= -24 THEN 0
  ELSE x[1] \div Pow2(-x[2])

\* round the 24-bit quotient q of exponent e, given the remainder as the pair
\* (rem, half): up when rem > half, or when rem = half and q is odd
F32Round(q, e, rem, half) ==
  LET up == rem > half \/ (rem = half /\ q % 2 = 1)
      r  == IF up THEN q + 1 ELSE q
  IN  IF r = Pow2(24) THEN <<Pow2(23), e + 1>> ELSE <<r, e>>

\* k further quotient bits of r / d by long division: <<quotient, remainder>>
RECURSIVE LongDiv(_, _, _, _)
LongDiv(q, r, d, k) ==
  IF k = 0 THEN <<q, r>>
  ELSE IF 2 * r >= d THEN LongDiv(2 * q + 1, 2 * r - d, d, k - 1)
  ELSE LongDiv(2 * q, 2 * r, d, k - 1)

\* x / y
F32Div(x, y) ==
  IF x[1] >= y[1]
    THEN LET qr == LongDiv(1, x[1] - y[1], y[1], 23)
         IN  F32Round(qr[1], x[2] - y[2] - 23, 2 * qr[2], y[1])
    ELSE LET qr == LongDiv(0, x[1], y[1], 24)
         IN  F32Round(qr[1], x[2] - y[2] - 24, 2 * qr[2], y[1])

\* x * y: the 48-bit product of the significands in four 12-bit digits
F32Mul(x, y) ==
  LET a1 == x[1] \div 4096
      a0 == x[1] % 4096
      b1 == y[1] \div 4096
      b0 == y[1] % 4096
      t0 == a0 * b0
      t1 == a1 * b0 + a0 * b1 + t0 \div 4096
      t2 == a1 * b1 + t1 \div 4096
      d0 == t0 % 4096
      d1 == t1 % 4096
      hi == t2
  IN  IF hi >= Pow2(23)
        THEN F32Round(hi, x[2] + y[2] + 24, d1 * 4096 + d0, Pow2(23))
        ELSE F32Round(2 * hi + d1 \div 2048, x[2] + y[2] + 23,
                      (d1 % 2048) * 4096 + d0, Pow2(22))

F32Less(x, y) == x[2] < y[2] \/ (x[2] = y[2] /\ x[1] < y[1])

\* f32::min
F32Min(x, y) == IF F32Less(y, x) THEN y ELSE x

\* the literal 0.9 as f32: 15099494 * 2^-24
F32_0_9 == <<15099494, -24>>

(***************************************************************************)
(* The sizing policy (adjust_window_size) and the GPU surface.             *)
(***************************************************************************)
\* (desktop as f32 * 0.9) as u32
MaxSize(d) == F32ToU32(F32Mul(F32FromU32(d), F32_0_9))

\* the scale of the two scaling branches towards the box bw x bh:
\* scale_x.min(scale_y)
Scale(iw, ih, bw, bh) ==
  F32Min(F32Div(F32FromU32(bw), F32FromU32(iw)),
         F32Div(F32FromU32(bh), F32FromU32(ih)))

\* ((image_width as f32 * scale) as u32, (image_height as f32 * scale) as u32)
Scaled(iw, ih, bw, bh) ==
  <<F32ToU32(F32Mul(F32FromU32(iw), Scale(iw, ih, bw, bh))),
    F32ToU32(F32Mul(F32FromU32(ih), Scale(iw, ih, bw, bh)))>>

\* adjust_window_size with the two tests in the wrong order
SizingBranchShrinkFirst(iw, ih, minSize, desktop) ==
  IF iw > MaxSize(desktop[1]) \/ ih > MaxSize(desktop[2]) THEN "Shrink"
  ELSE IF iw < minSize[1] \/ ih < minSize[2] THEN "Enlarge"
  ELSE "Unchanged"

\* the branch of adjust_window_size that an image takes
SizingBranch(iw, ih, minSize, desktop) ==
  IF iw < minSize[1] \/ ih < minSize[2] THEN "Enlarge"
  ELSE IF iw > MaxSize(desktop[1]) \/ ih > MaxSize(desktop[2]) THEN "Shrink"
  ELSE "Unchanged"

\* (new_width, new_height) of adjust_window_size
NewSize(iw, ih, minSize, desktop) ==
  CASE SizingBranch(iw, ih, minSize, desktop) = "Enlarge"
         -> Scaled(iw, ih, minSize[1], minSize[2])
    [] SizingBranch(iw, ih, minSize, desktop) = "Shrink"
         -> Scaled(iw, ih, MaxSize(desktop[1]), MaxSize(desktop[2]))
    [] OTHER -> <<iw, ih>>

\* the fields of the viewer that its handlers change, as one value; a handler
\* starts with no Surface::configure call made and no frame rendered
View ==
  [window |-> window, gpu |-> gpu, config |-> config, texture |-> current_texture,
   title |-> title, requested |-> requested, image |-> lastImage,
   crashed |-> crashed, configured |-> None, frame |-> None,
   resident |-> resident]

\* ImageViewer::resize without the test for a zero width or height
resize_unguarded(v, new_width, new_height) ==
  IF v.gpu /\ v.config # None
    THEN [v EXCEPT !.config = Some(<<new_width, new_height>>),
                   !.configured = Some(<<new_width, new_height>>)]
    ELSE v

\* ImageViewer::resize
resize(v, new_width, new_height) ==
  IF new_width > 0 /\ new_height > 0 /\ v.gpu /\ v.config # None
    THEN [v EXCEPT !.config = Some(<<new_width, new_height>>),
                   !.configured = Some(<<new_width, new_height>>)]
    ELSE v

\* ImageViewer::adjust_window_size
adjust_window_size(v, image_width, image_height) ==
  LET size == NewSize(image_width, image_height, min_window_size, desktop_size)
  IN  resize([v EXCEPT !.requested = IF v.window THEN Some(size) ELSE @],
             size[1], size[2])

\* load_texture that keeps the texture it replaces alive
load_texture_leaking(v, src, dims) ==
  IF ~v.gpu THEN [v EXCEPT !.crashed = TRUE]
  ELSE adjust_window_size(
         [v EXCEPT !.texture = Some([src |-> src, size |-> dims]),
                   !.image = Some(dims),
                   !.resident = @ + 1],
         dims[1], dims[2])

\* ImageViewer::load_texture for an image of dimensions dims decoded from
\* path src; it unwraps the device and panics when there is none.  It
\* creates one texture, and the assignment to current_texture drops the
\* TextureInfo that was bound, which releases its texture.
load_texture(v, src, dims) ==
  IF ~v.gpu THEN [v EXCEPT !.crashed = TRUE]
  ELSE adjust_window_size(
         [v EXCEPT !.texture = Some([src |-> src, size |-> dims]),
                   !.image = Some(dims),
                   !.resident = @ + 1 - (IF v.texture # None THEN 1 ELSE 0)],
         dims[1], dims[2])

\* update_window_title that leaves the title as it is
update_window_title_skipped(v, filename) == v

\* ImageViewer::update_window_title
update_window_title(v, filename) ==
  IF v.window THEN [v EXCEPT !.title = Some(filename \o TitleSuffix)] ELSE v

\* PixelDecoder (ImageHandler::load_image): the dimensions of the image
\* decoded from path p, or nothing when decoding fails
load_image(p) ==
  LET hits == IF p.dir \in DOMAIN fs THEN { e \in fs[p.dir] : e.name = p.name } ELSE {}
  IN  IF hits = {} THEN None ELSE (CHOOSE e \in hits : TRUE).img

\* load_current_image that drops the bound texture when decoding fails
load_current_image_blanking(v, imgs, idx) ==
  LET cur == IF idx < Len(imgs) THEN Some(imgs[idx + 1]) ELSE None
  IN  IF cur = None THEN [did |-> "empty", v |-> v]
      ELSE IF load_image(cur[1].path) = None
        THEN [did |-> "decode_failed", v |-> [v EXCEPT !.texture = None]]
      ELSE LET t == load_texture(v, cur[1].path, load_image(cur[1].path)[1])
           IN  IF t.crashed THEN [did |-> "panic", v |-> t]
               ELSE [did |-> "loaded", v |-> update_window_title(t, cur[1].name)]

\* ImageViewer::load_current_image on the catalog (imgs, idx): what it did
\* ("empty", "decode_failed", "panic" or "loaded") and the viewer it leaves
load_current_image(v, imgs, idx) ==
  LET cur == IF idx < Len(imgs) THEN Some(imgs[idx + 1]) ELSE None
  IN  IF cur = None THEN [did |-> "empty", v |-> v]
      ELSE IF load_image(cur[1].path) = None THEN [did |-> "decode_failed", v |-> v]
      ELSE LET t == load_texture(v, cur[1].path, load_image(cur[1].path)[1])
           IN  IF t.crashed THEN [did |-> "panic", v |-> t]
               ELSE [did |-> "loaded", v |-> update_window_title(t, cur[1].name)]

\* what Surface::get_current_texture returns to render
RenderOutcomes == {"Ok", "Lost", "OutOfMemory", "Timeout", "Outdated"}

\* ImageViewer::render.  It unwraps the surface and panics when there is
\* none; a surface error returns before anything is recorded.  Otherwise the
\* pass clears to black, sets the bind group when a texture is bound, and
\* records draw_indexed in either case.  The pipeline layout has one bind
\* group, so a draw with none set is a validation error: strict tells
\* whether the error handler of the device panics on it (the default) or
\* lets the frame through.
render(v, outcome, strict) ==
  IF ~v.gpu THEN [v EXCEPT !.crashed = TRUE]
  ELSE IF outcome # "Ok" THEN v
  ELSE IF v.texture = None /\ strict
    THEN [v EXCEPT !.crashed = TRUE,
                   !.frame = Some([cleared |-> FALSE, bound |-> FALSE,
                                   drawn |-> TRUE, presented |-> FALSE])]
  ELSE [v EXCEPT !.frame = Some([cleared |-> TRUE, bound |-> v.texture # None,
                                 drawn |-> TRUE, presented |-> TRUE])]

\* the match on the surface error with Lost treated like OutOfMemory
SurfaceErrorActionLostFatal(outcome) ==
  CASE outcome = "Lost" -> "exit"
    [] outcome = "OutOfMemory" -> "exit"
    [] OTHER -> "none"

\* the match on the surface error in the RedrawRequested arm
SurfaceErrorAction(outcome) ==
  CASE outcome = "Lost" -> "reconfigure"
    [] outcome = "OutOfMemory" -> "exit"
    [] OTHER -> "none"

(***************************************************************************)
(* The viewer's handlers.  The host delivers one event at a time while the *)
(* event loop runs (phase = "viewer").                                     *)
(***************************************************************************)
\* store the viewer fields of v; a panic ends the process with code 101
SetView(v) ==
  /\ window' = v.window
  /\ gpu' = v.gpu
  /\ config' = v.config
  /\ current_texture' = v.texture
  /\ title' = v.title
  /\ requested' = v.requested
  /\ lastImage' = v.image
  /\ crashed' = v.crashed
  /\ lastConfigure' = v.configured
  /\ frame' = v.frame
  /\ resident' = v.resident
  /\ phase' = IF v.crashed THEN "done" ELSE phase
  /\ exit_code' = IF v.crashed THEN Some(101) ELSE exit_code

\* the step handled event ev
Handled(op, ev) ==
  /\ lastOp' = op
  /\ lastOk' = TRUE
  /\ lastArg' = RootPath
  /\ lastEvent' = ev

Called(op) == Handled(op, NoEvent)

\* the step called neither Surface::configure nor render and created no
\* texture
NoGpuCall ==
  /\ lastConfigure' = None
  /\ frame' = None
  /\ resident' = resident

\* ImageViewer::new and ImageViewer::run: the viewer takes the handler over
NewViewer ==
  /\ phase = "handler"
  /\ phase' = "viewer"
  /\ Called("run")
  /\ lastReload' = "none"
  /\ NoGpuCall
  /\ UNCHANGED <<envVars, catalogVars, window, gpu, config, current_texture, title,
                 requested, exiting, crashed, lastImage, redraw_requested, exit_code>>

\* resumed without the test that the window is still None
ResumedUngated(outcome) ==
  /\ phase = "viewer"
  /\ Handled("resumed", [kind |-> "resumed", outcome |-> outcome])
  /\ UNCHANGED <<envVars, catalogVars, redraw_requested>>
  /\ IF outcome = "window_failed"
       THEN /\ SetView([View EXCEPT !.crashed = TRUE])
            /\ lastReload' = "none"
            /\ UNCHANGED exiting
     ELSE IF outcome = "gpu_failed"
       THEN /\ SetView([View EXCEPT !.window = TRUE, !.title = Some(AppTitle)])
            /\ lastReload' = "none"
            /\ exiting' = TRUE
     ELSE LET r == load_current_image(
                     [View EXCEPT !.window = TRUE, !.title = Some(AppTitle),
                                  !.gpu = TRUE, !.config = Some(min_window_size),
                                  !.configured = Some(min_window_size)],
                     images, current_index)
          IN  /\ SetView(r.v)
              /\ lastReload' = r.did
              /\ UNCHANGED exiting

\* ApplicationHandler::resumed; outcome is what the host does: it fails to
\* create the window, GPU initialisation fails, or both succeed
Resumed(outcome) ==
  /\ phase = "viewer"
  /\ Handled("resumed", [kind |-> "resumed", outcome |-> outcome])
  /\ UNCHANGED <<envVars, catalogVars, redraw_requested>>
  /\ IF window
       THEN /\ lastReload' = "none"
            /\ NoGpuCall
            /\ UNCHANGED <<window, gpu, config, current_texture, title, requested,
                           exiting, crashed, lastImage, phase, exit_code>>
     ELSE IF outcome = "window_failed"
       THEN /\ SetView([View EXCEPT !.crashed = TRUE])
            /\ lastReload' = "none"
            /\ UNCHANGED exiting
     ELSE IF outcome = "gpu_failed"
       THEN /\ SetView([View EXCEPT !.window = TRUE, !.title = Some(AppTitle)])
            /\ lastReload' = "none"
            /\ exiting' = TRUE
     ELSE LET r == load_current_image(
                     [View EXCEPT !.window = TRUE, !.title = Some(AppTitle),
                                  !.gpu = TRUE, !.config = Some(min_window_size),
                                  !.configured = Some(min_window_size)],
                     images, current_index)
          IN  /\ SetView(r.v)
              /\ lastReload' = r.did
              /\ UNCHANGED exiting

\* window_event for a window id that is not the viewer's window
ForeignWindowEvent ==
  /\ phase = "viewer"
  /\ Handled("foreign_event", [kind |-> "foreign"])
  /\ lastReload' = "none"
  /\ NoGpuCall
  /\ UNCHANGED <<envVars, catalogVars, window, gpu, config, current_texture, title,
                 requested, exiting, crashed, lastImage, redraw_requested, phase,
                 exit_code>>

\* WindowEvent::CloseRequested
CloseRequested ==
  /\ phase = "viewer"
  /\ window
  /\ Handled("close", [kind |-> "close"])
  /\ exiting' = TRUE
  /\ lastReload' = "none"
  /\ NoGpuCall
  /\ UNCHANGED <<envVars, catalogVars, window, gpu, config, current_texture, title,
                 requested, crashed, lastImage, redraw_requested, phase, exit_code>>

\* the key codes the host reports
Keys ==
  {"Escape", "Enter", "ArrowRight", "KeyX", "ArrowLeft", "KeyZ", "F4", "Space"}

\* the key codes of the arms of the match on physical_key
QuitKeys == {"Escape", "Enter"}
AdvanceKeys == {"ArrowRight", "KeyX"}

\* the retreat arm matching ArrowLeft alone
RetreatKeysArrowOnly == {"ArrowLeft"}

RetreatKeys == {"ArrowLeft", "KeyZ"}

\* a key event: the code and whether the key is pressed
KeyEvent(key, pressed) == [kind |-> "key", key |-> key, pressed |-> pressed]

\* WindowEvent::KeyboardInput for a press of a navigation key
NavigationKey(key) ==
  /\ phase = "viewer"
  /\ window
  /\ key \in AdvanceKeys \cup RetreatKeys
  /\ IF key \in AdvanceKeys THEN next_image ELSE previous_image
  /\ Handled(IF key \in AdvanceKeys THEN "next" ELSE "previous", KeyEvent(key, TRUE))
  /\ LET r == load_current_image(View, images, current_index')
     IN  /\ SetView(r.v)
         /\ lastReload' = r.did
  /\ UNCHANGED <<envVars, exiting, redraw_requested>>

\* WindowEvent::KeyboardInput for a press of Escape or Enter
QuitKey(key) ==
  /\ phase = "viewer"
  /\ window
  /\ key \in QuitKeys
  /\ Handled("quit_key", KeyEvent(key, TRUE))
  /\ exiting' = TRUE
  /\ lastReload' = "none"
  /\ NoGpuCall
  /\ UNCHANGED <<envVars, catalogVars, window, gpu, config, current_texture, title,
                 requested, crashed, lastImage, redraw_requested, phase, exit_code>>

\* WindowEvent::KeyboardInput for a press of any other key, or a key release
IgnoredKey(key, pressed) ==
  /\ phase = "viewer"
  /\ window
  /\ key \notin QuitKeys \cup AdvanceKeys \cup RetreatKeys \/ ~pressed
  /\ Handled("ignored_key", KeyEvent(key, pressed))
  /\ lastReload' = "none"
  /\ NoGpuCall
  /\ UNCHANGED <<envVars, catalogVars, window, gpu, config, current_texture, title,
                 requested, exiting, crashed, lastImage, redraw_requested, phase,
                 exit_code>>

\* the sizes the host reports in WindowEvent::Resized
HostSizes == { <<0, 0>>, <<0, 600>>, <<640, 0>>, <<640, 480>> }

\* the Resized arm asking the window for the reported size as well, as
\* adjust_window_size does
ResizedRequesting(size) ==
  /\ phase = "viewer"
  /\ window
  /\ Handled("resized", [kind |-> "resized", size |-> size])
  /\ SetView(resize([View EXCEPT !.requested = Some(size)], size[1], size[2]))
  /\ lastReload' = "none"
  /\ UNCHANGED <<envVars, catalogVars, exiting, redraw_requested>>

\* WindowEvent::Resized
Resized(size) ==
  /\ phase = "viewer"
  /\ window
  /\ Handled("resized", [kind |-> "resized", size |-> size])
  /\ SetView(resize(View, size[1], size[2]))
  /\ lastReload' = "none"
  /\ UNCHANGED <<envVars, catalogVars, exiting, redraw_requested>>

\* WindowEvent::RedrawRequested
RedrawRequested(outcome, strict) ==
  /\ phase = "viewer"
  /\ window
  /\ Handled("redraw", [kind |-> "redraw", outcome |-> outcome])
  /\ lastReload' = "none"
  /\ redraw_requested' = FALSE
  /\ LET r == render(View, outcome, strict)
         act == IF r.crashed \/ outcome = "Ok" THEN "none"
                ELSE SurfaceErrorAction(outcome)
     IN  /\ SetView(IF act = "reconfigure" /\ r.config # None
                      THEN resize(r, r.config[1][1], r.config[1][2])
                      ELSE r)
         /\ exiting' = IF act = "exit" THEN TRUE ELSE exiting
  /\ UNCHANGED <<envVars, catalogVars>>

\* ApplicationHandler::about_to_wait
AboutToWait ==
  /\ phase = "viewer"
  /\ Handled("about_to_wait", [kind |-> "about_to_wait"])
  /\ redraw_requested' = IF window THEN TRUE ELSE redraw_requested
  /\ lastReload' = "none"
  /\ NoGpuCall
  /\ UNCHANGED <<envVars, catalogVars, window, gpu, config, current_texture, title,
                 requested, exiting, crashed, lastImage, phase, exit_code>>

\* the event loop ends after exit was called: run returns Ok, run_app
\* returns Ok and main returns
LoopExit ==
  /\ phase = "viewer"
  /\ exiting
  /\ phase' = "done"
  /\ exit_code' = Some(0)
  /\ Called("loop_exit")
  /\ lastReload' = "none"
  /\ NoGpuCall
  /\ UNCHANGED <<envVars, catalogVars, window, gpu, config, current_texture, title,
                 requested, exiting, crashed, lastImage, redraw_requested>>

ViewerEvent ==
  \/ \E o \in {"window_failed", "gpu_failed", "ok"} : Resumed(o)
  \/ ForeignWindowEvent
  \/ CloseRequested
  \/ \E k \in Keys : NavigationKey(k)
  \/ \E k \in Keys : QuitKey(k)
  \/ \E k \in Keys, pressed \in BOOLEAN : IgnoredKey(k, pressed)
  \/ \E sz \in HostSizes : Resized(sz)
  \/ \E o \in RenderOutcomes, strict \in BOOLEAN : RedrawRequested(o, strict)
  \/ AboutToWait
  \/ LoopExit

\* the file systems of the viewer specifications
ViewerFileSystems ==
  { [d \in Dirs |-> IF d = "A" THEN a ELSE {UpperPng}] :
      a \in { {}, {NoteTxt}, {File1, File10, File2}, {WebpNoTs, File01} } }

InitView ==
  /\ fs \in ViewerFileSystems
  /\ sort_algorithm \in {"FileName", "FileNameNatural"}
  /\ min_window_size = DefaultMinWindowSize
  /\ desktop_size = DefaultDesktopSize
  /\ InitCatalog
  /\ NoCompare
  /\ InitViewer

\* a handler driven by any caller and then moved into a viewer
NextView == Next \/ NewViewer \/ ViewerEvent

SpecViewer == InitView /\ [][NextView]_vars

(***************************************************************************)
(* The program: run_app loads the catalog from the path argument once and  *)
(* then runs the viewer.                                                   *)
(***************************************************************************)
\* Path::is_file and Path::is_dir of the path argument; is_file is false
\* when the metadata of the path cannot be read
IsFile(p) ==
  /\ p.dir \in DOMAIN fs
  /\ \E e \in fs[p.dir] : e.name = p.name /\ e.kind = "file" /\ e.meta = "ok"
IsDir(p) == p.name = <<>> /\ p.dir \in DOMAIN fs

\* the paths given on the command line: a directory, a missing directory, a
\* file of a directory, a file that does not exist
StartPaths ==
  { DirPath(d) : d \in DirArgs } \cup
  UNION { { FilePath(d, e.name) : e \in { x \in fs[d] : x.kind = "file" } } : d \in Dirs }
  \cup { FilePath("A", Vanished) }

\* run_app that does not test the catalog for emptiness
StartedIgnoringEmpty(r) == r.ok

\* run_app goes on to create the event loop: the load returned Ok and the
\* catalog is not empty
Started(r) == r.ok /\ r.images # <<>>

\* run_app up to the start of the event loop, and main's exit(1) on Err;
\* loopOk tells whether EventLoop::new succeeds
RunApp(p) ==
  /\ phase = "handler"
  /\ lastOp = "new"
  /\ \E sc \in ScanOutcomes(p.dir), loopOk \in BOOLEAN :
       LET r == IF IsFile(p) THEN load_images_with_target(p, sc[1], sc[2])
                ELSE IF IsDir(p)
                  THEN [ok |-> load_images_from_directory(p.dir, sc[1], sc[2]).ok,
                        images |-> load_images_from_directory(p.dir, sc[1], sc[2]).images,
                        index |-> current_index]
                ELSE [ok |-> FALSE, images |-> images, index |-> current_index]
           started == Started(r) /\ loopOk
       IN  /\ images' = r.images
           /\ current_index' = r.index
           /\ lastOp' = "run_app"
           /\ lastOk' = started
           /\ lastArg' = p
           /\ phase' = IF started THEN "viewer" ELSE "done"
           /\ exit_code' = IF started THEN exit_code ELSE Some(1)
  /\ lastReload' = "none"
  /\ UNCHANGED <<envVars, window, gpu, config, current_texture, title, requested,
                 exiting, crashed, lastImage, redraw_requested, lastEvent,
                 lastConfigure, frame, resident>>

NextApp == (\E p \in StartPaths : RunApp(p)) \/ ViewerEvent

SpecApp == InitView /\ [][NextApp]_vars

(***************************************************************************)
(* The sizing policy on its own: load_texture called on an initialised     *)
(* viewer with images of many sizes, for several minimum boxes and         *)
(* desktops.                                                               *)
(***************************************************************************)
ImageWidths ==
  {1, 2, 3, 15, 36, 100, 200, 333, 639, 640, 641, 799, 800, 801, 1000, 1229,
   1230, 1727, 1728, 1729, 1920, 4000, 8000}
ImageHeights ==
  {1, 2, 36, 100, 479, 480, 481, 582, 599, 600, 601, 691, 692, 700, 971, 972,
   973, 1080, 1403, 4000, 10000}
MinWindowSizes == { DefaultMinWindowSize, <<640, 480>>, <<1, 1>> }
DesktopSizes == { DefaultDesktopSize, <<1366, 768>> }

InitSize ==
  /\ fs = [d \in Dirs |-> {}]
  /\ sort_algorithm = "FileName"
  /\ min_window_size \in MinWindowSizes
  /\ desktop_size \in DesktopSizes
  /\ InitCatalog
  /\ NoCompare
  /\ phase = "viewer"
  /\ window = TRUE
  /\ gpu = TRUE
  /\ config = Some(min_window_size)
  /\ current_texture = None
  /\ title = Some(AppTitle)
  /\ requested = None
  /\ exiting = FALSE
  /\ crashed = FALSE
  /\ lastReload = "none"
  /\ lastImage = None
  /\ redraw_requested = FALSE
  /\ exit_code = None
  /\ lastEvent = NoEvent
  /\ lastConfigure = None
  /\ frame = None
  /\ resident = 0

\* ImageViewer::load_texture called on the fresh viewer with an image of the
\* given dimensions
LoadTexture(dims) ==
  /\ phase = "viewer"
  /\ lastImage = None
  /\ Called("load_texture")
  /\ SetView(load_texture(View, RootPath, dims))
  /\ lastReload' = "none"
  /\ UNCHANGED <<envVars, catalogVars, exiting, redraw_requested>>

NextSize == \E w \in ImageWidths, h \in ImageHeights : LoadTexture(<<w, h>>)

SpecSize == InitSize /\ [][NextSize]_vars

(***************************************************************************)
(* The comparator on its own: natural_sort_compare applied to the pairs of *)
(* three names over an alphabet with a character below '0', two digits and *)
(* a character above '9', and to names with digit runs at the limit of u64.*)
(***************************************************************************)
Alphabet == {"-", "0", "1", "a"}

\* largest length of a name over the alphabet
MaxNameLen == 2

BoundedNames == UNION { [1..n -> Alphabet] : n \in 0..MaxNameLen }

\* 10^20, which has 21 digits, and 2^64, one more than u64::MAX
LongRun ==
  <<"1","0","0","0","0","0","0","0","0","0","0","0","0","0","0","0","0","0","0","0","0">>
U64MaxPlusOne ==
  <<"1","8","4","4","6","7","4","4","0","7","3","7","0","9","5","5","1","6","1","6">>

LongNameTriples ==
  { <<LongRun, <<"1">>, <<"2">>>>,
    <<(<<"1">>), LongRun, U64MaxDigits>>,
    <<U64MaxDigits, U64MaxPlusOne, <<"0","1">>>>,
    <<(<<"a">> \o LongRun), <<"a","1">>, <<"a","0">>>> }

NameTriples ==
  (BoundedNames \X BoundedNames \X BoundedNames) \cup LongNameTriples

InitCompare ==
  /\ fs = [d \in Dirs |-> {}]
  /\ sort_algorithm = "FileNameNatural"
  /\ min_window_size = DefaultMinWindowSize
  /\ desktop_size = DefaultDesktopSize
  /\ InitCatalog
  /\ InitViewer
  /\ names \in NameTriples
  /\ orderings = None

\* natural_sort_compare called on the pairs of the three names
CompareNames ==
  /\ orderings = None
  /\ orderings' = Some([ab |-> natural_sort_compare(names[1], names[2]),
                        ba |-> natural_sort_compare(names[2], names[1]),
                        bc |-> natural_sort_compare(names[2], names[3]),
                        ac |-> natural_sort_compare(names[1], names[3])])
  /\ UNCHANGED <<fs, sort_algorithm, min_window_size, desktop_size, names,
                 catalogVars, callVars, viewerVars>>

NextCompare == CompareNames

SpecCompare == InitCompare /\ [][NextCompare]_vars

(***************************************************************************)
(* Properties of the catalog.                                              *)
(***************************************************************************)
PopulateRan == lastOp \in {"populate", "populateWithTarget"} /\ lastOk

\* the directory the last populate scanned
ScannedDir == fs[lastArg.dir]

Names(imgs) == [i \in 1..Len(imgs) |-> imgs[i].name]

\* C1: whenever the stored sequence is non-empty, the cursor is a position of
\* it (0 <= cursor < len), after any sequence of populate, populateWithTarget,
\* next and previous calls.
C1_CursorInRange == images # <<>> => current_index < Len(images)

\* the entries of the universe that are regular files with one of the
\* extensions jpg, jpeg, png, webp, psd in any letter case
SupportedFiles == {File1, File10, File2, File01, UpperPng, WebpNoTs, PrefixPng, GonePng}

Adjacent(imgs) ==
  \A i \in 1..(Len(imgs) - 1) : Compare(sort_algorithm, imgs[i], imgs[i + 1]) # "Greater"

Once(imgs) == \A i, j \in 1..Len(imgs) : imgs[i].path = imgs[j].path => i = j

StoredPaths == { images[i].path : i \in 1..Len(images) }

C5_PopulateResetsCursor == (lastOp = "populate" /\ lastOk) => current_index = 0

\* C6: after a successful populateWithTarget(path) the cursor is the index of
\* path in the stored sequence when path is in it, and 0 when it is not,
\* whatever the cursor was before the call.
C6_TargetCursor ==
  (lastOp = "populateWithTarget" /\ lastOk) =>
    IF lastArg \in StoredPaths
      THEN current_index < Len(images) /\ images[current_index + 1].path = lastArg
      ELSE current_index = 0

IsStrictPrefix(a, b) == Len(a) < Len(b) /\ SubSeq(b, 1, Len(a)) = a

\* C7: the natural order sorts file1.jpg, file10.jpg, file2.jpg by the value
\* of the digit runs (file1, file2, file10), the plain name order sorts them
\* lexicographically (file1, file10, file2), and in both a name that is a
\* strict prefix of another one comes before it.
C7_NaturalVersusLexicographic ==
  (PopulateRan /\ sort_algorithm \in {"FileName", "FileNameNatural"}) =>
    /\ (ScannedDir = NumberedDir /\ sort_algorithm = "FileNameNatural")
         => Names(images) = <<File1.name, File2.name, File10.name>>
    /\ (ScannedDir = NumberedDir /\ sort_algorithm = "FileName")
         => Names(images) = <<File1.name, File10.name, File2.name>>
    /\ \A i, j \in 1..Len(images) :
         IsStrictPrefix(images[i].name, images[j].name) => i < j

C7_Witness ==
  /\ PopulateRan
  /\ sort_algorithm = "FileNameNatural"
  /\ ScannedDir = NumberedDir
  /\ Len(images) = 3

(***************************************************************************)
(* Properties of navigation.                                               *)
(***************************************************************************)
\* the cursor after k calls of next() on a catalog of n records
RECURSIVE NextTimes(_, _, _)
NextTimes(k, c, n) == IF k = 0 THEN c ELSE NextTimes(k - 1, NextIndex(c, n), n)

C3_EmptyCatalogNoOps ==
  [][ images = <<>> =>
        /\ current_image = None
        /\ lastOp' \in {"next", "previous"} =>
             /\ images' = images
             /\ current_index' = current_index
             /\ crashed' = crashed
        /\ (phase = "viewer" /\ lastOp' \in {"next", "previous", "resumed"}) =>
             /\ lastReload' \in {"empty", "none"}
             /\ current_texture' = current_texture
             /\ lastImage' = lastImage
             /\ title' = IF lastOp' = "resumed" /\ ~window /\ window'
                           THEN Some(AppTitle) ELSE title
    ]_vars

\* an advance key was handled by a viewer whose catalog is empty
C3_Witness ==
  /\ images = <<>>
  /\ lastOp = "next"
  /\ phase = "viewer"
  /\ lastReload = "empty"
  /\ gpu

(***************************************************************************)
(* Properties of the sizing policy.                                        *)
(***************************************************************************)
\* the image load_texture was given last and the size it asked the window for
ImageW == lastImage[1][1]
ImageH == lastImage[1][2]
OutW == requested[1][1]
OutH == requested[1][2]
Sized == lastOp = "load_texture" /\ lastImage # None /\ requested # None

MinW == min_window_size[1]
MinH == min_window_size[2]

\* 90% of the desktop, in whole pixels
MaxW == (9 * desktop_size[1]) \div 10
MaxH == (9 * desktop_size[2]) \div 10

\* floor(iw * s) and floor(ih * s) for the exact s = min(bw / iw, bh / ih)
ExactScaled(iw, ih, bw, bh) ==
  IF bw * ih <= bh * iw THEN <<bw, (ih * bw) \div iw>>
                        ELSE <<(iw * bh) \div ih, bh>>

BelowMin == ImageW < MinW \/ ImageH < MinH
AboveMax == ImageW > MaxW \/ ImageH > MaxH

\* C8: when an image dimension is below the minimum box, the output is
\* (floor(w * s), floor(h * s)) for s = min(minWidth / w, minHeight / h); it
\* fits inside the minimum box and reaches it on the binding axis.
C8_EnlargeExact ==
  (Sized /\ BelowMin) =>
    /\ <<OutW, OutH>> = ExactScaled(ImageW, ImageH, MinW, MinH)
    /\ OutW <= MinW /\ OutH <= MinH
    /\ OutW = MinW \/ OutH = MinH

\* C9: when both image dimensions are at least the minimum box and one
\* exceeds 90% of the desktop, the output is the image scaled by
\* min(maxWidth / w, maxHeight / h), truncated, and fits within 90% of the
\* desktop.
C9_ShrinkExact ==
  (Sized /\ ~BelowMin /\ AboveMax) =>
    /\ <<OutW, OutH>> = ExactScaled(ImageW, ImageH, MaxW, MaxH)
    /\ OutW <= MaxW /\ OutH <= MaxH

\* an output that fills the box bw x bh on one axis, up to one pixel, and
\* does not exceed it on the other
FillsBox(bw, bh) ==
  /\ OutW <= bw /\ OutH <= bh
  /\ OutW >= bw - 1 \/ OutH >= bh - 1

SessionFields ==
  <<images, current_index, window, gpu, config, current_texture, title,
    requested, exiting, crashed, phase, exit_code>>

\* C11: resize(w, h) with w = 0 or h = 0 changes nothing: the surface
\* configuration and every other field of the session are as before and the
\* surface is not reconfigured; with w > 0, h > 0 and the GPU resources
\* initialised the surface configuration becomes exactly (w, h).
C11_ResizeSurface ==
  [][ lastEvent'.kind = "resized" =>
        LET w == lastEvent'.size[1]
            h == lastEvent'.size[2]
        IN  /\ (w = 0 \/ h = 0) =>
                 /\ UNCHANGED SessionFields
                 /\ lastConfigure' = None
            /\ (w > 0 /\ h > 0 /\ gpu) =>
                 /\ config' = Some(<<w, h>>)
                 /\ lastConfigure' = Some(<<w, h>>)
    ]_vars

\* a zero-height request reached a viewer whose surface is 640x480
C11_Witness ==
  /\ lastEvent = [kind |-> "resized", size |-> <<640, 0>>]
  /\ gpu
  /\ config = Some(<<640, 480>>)

\* C12: when decoding the file at the cursor fails, the reload leaves the
\* bound texture, the title, the surface configuration and the cursor as
\* they were before it (the cursor is where next or previous put it, the
\* title and configuration of a fresh window are those of its creation), and
\* the session keeps running.
C12_DecodeFailureKeepsState ==
  [][ lastReload' = "decode_failed" =>
        /\ current_texture' = current_texture
        /\ title' = IF lastOp' = "resumed" THEN Some(AppTitle) ELSE title
        /\ config' = IF lastOp' = "resumed" THEN Some(min_window_size) ELSE config
        /\ images' = images
        /\ current_index' =
             CASE lastOp' = "next" -> (current_index + 1) % Len(images)
               [] lastOp' = "previous" ->
                    IF current_index = 0 THEN Len(images) - 1 ELSE current_index - 1
               [] OTHER -> current_index
        /\ exiting' = exiting
        /\ ~crashed'
        /\ phase' = "viewer"
        /\ exit_code' = None
    ]_vars

\* an advance key moved to a file that does not decode while the texture of
\* another file was bound
C12_Witness ==
  /\ lastReload = "decode_failed"
  /\ lastOp = "next"
  /\ current_texture # None
  /\ current_image # None
  /\ current_texture[1].src # current_image[1].path

\* the directory of path p holds no regular file of a supported extension
NoSupportedFile(p) ==
  /\ p.dir \in DOMAIN fs
  /\ \A e \in fs[p.dir] : ~(e.kind = "file" /\ is_supported_format(e.name))

\* C13: started on a path that is neither a file nor a directory, or whose
\* directory holds no file of a supported extension, the process ends with
\* exit code 1, with no window created and no event handled.
C13_StartupFailureExit ==
  [][ ( /\ lastOp' = "run_app"
        /\ \/ ~IsFile(lastArg') /\ ~IsDir(lastArg')
           \/ NoSupportedFile(lastArg') ) =>
        /\ exit_code' = Some(1)
        /\ phase' = "done"
        /\ ~window'
        /\ ~gpu'
        /\ lastEvent' = NoEvent
    ]_vars

\* the program was started on a directory that holds a text file only
C13_Witness ==
  /\ lastOp = "run_app"
  /\ lastArg = DirPath("A")
  /\ fs["A"] = {NoteTxt}
  /\ exit_code = Some(1)

\* C14: when GPU initialisation fails on the window-ready signal, the
\* session ends and the process, unless it panicked, exits with code 1.
C14_GpuFailureExitCode ==
  (phase = "done" /\ window /\ ~gpu /\ ~crashed) => exit_code = Some(1)

\* the last event is a press of key k
Pressed(ev, ks) == ev.kind = "key" /\ ev.pressed /\ ev.key \in ks

\* C15: a window-close event or a press of Escape or Enter requests
\* termination and changes neither the cursor nor the bound texture; a press
\* of ArrowRight or X does one next() and one reload of the file at the new
\* cursor, a press of ArrowLeft or Z one previous() and one reload; a key
\* release and an event for another window id change nothing.
C15_EventDispatch ==
  [][ /\ (lastEvent'.kind = "close" \/ Pressed(lastEvent', {"Escape", "Enter"})) =>
           /\ exiting'
           /\ UNCHANGED <<images, current_index, current_texture>>
           /\ lastReload' = "none"
      /\ Pressed(lastEvent', {"ArrowRight", "KeyX"}) =>
           /\ images' = images
           /\ current_index' = IF images = <<>> THEN current_index
                               ELSE (current_index + 1) % Len(images)
           /\ lastReload' # "none"
      /\ Pressed(lastEvent', {"ArrowLeft", "KeyZ"}) =>
           /\ images' = images
           /\ current_index' = IF images = <<>> THEN current_index
                               ELSE IF current_index = 0 THEN Len(images) - 1
                               ELSE current_index - 1
           /\ lastReload' # "none"
      /\ (Pressed(lastEvent', {"ArrowRight", "KeyX", "ArrowLeft", "KeyZ"})
            /\ lastReload' = "loaded") =>
           current_texture'[1].src = images'[current_index' + 1].path
      /\ (lastEvent'.kind = "foreign"
            \/ (lastEvent'.kind = "key" /\ ~lastEvent'.pressed)) =>
           /\ UNCHANGED SessionFields
           /\ lastReload' = "none"
    ]_vars

\* a press of Z took the cursor from the first to the last of three files,
\* whose image was loaded
C15_Witness ==
  /\ lastEvent = KeyEvent("KeyZ", TRUE)
  /\ lastReload = "loaded"
  /\ Len(images) = 3
  /\ current_index = 2

\* C16: after every successful reload the title is the name of the file at
\* the cursor followed by " - rs_fast_image_viewer"; a failed reload leaves
\* the title as it was; whenever a texture is bound the title names the file
\* it was decoded from.
C16_TitleNamesBoundTexture ==
  [][ /\ lastReload' = "loaded" =>
           title' = Some(images'[current_index' + 1].name \o TitleSuffix)
      /\ (lastReload' \in {"decode_failed", "empty"} /\ lastOp' # "resumed") =>
           title' = title
      /\ current_texture' # None =>
           title' = Some(current_texture'[1].src.name \o TitleSuffix)
    ]_vars

\* an advance key loaded file10.jpg and the title names it
C16_Witness ==
  /\ lastReload = "loaded"
  /\ lastOp = "next"
  /\ title = Some(File10.name \o TitleSuffix)

\* C17: on a redraw request of an initialised viewer, a surface-lost error
\* configures the surface again with the width and height it has and the
\* session continues; an out-of-memory error requests termination; any
\* other surface error changes no state.  After each of them the viewer
\* still handles redraw requests.
C17_RenderErrors ==
  [][ (lastEvent'.kind = "redraw" /\ gpu) =>
        /\ lastEvent'.outcome = "Lost" =>
             /\ lastConfigure' = config
             /\ UNCHANGED SessionFields
        /\ lastEvent'.outcome = "OutOfMemory" =>
             /\ exiting'
             /\ lastConfigure' = None
        /\ lastEvent'.outcome \in {"Timeout", "Outdated"} =>
             /\ UNCHANGED SessionFields
             /\ lastConfigure' = None
        /\ lastEvent'.outcome # "Ok" =>
             /\ frame' = None
             /\ phase' = "viewer" /\ window' /\ gpu'
    ]_vars

\* a surface-lost error was answered by configuring the 640x480 surface again
C17_Witness ==
  /\ lastEvent = [kind |-> "redraw", outcome |-> "Lost"]
  /\ lastConfigure = Some(<<640, 480>>)
  /\ config = Some(<<640, 480>>)
  /\ ~exiting

\* C18: populate on a directory that can be listed succeeds whatever happens
\* on its entries: an entry that cannot be read, or whose metadata cannot be
\* read, does not abort the scan.
C18_EntryFailureNeverAborts ==
  (lastOp \in {"populate", "populateWithTarget"} /\ lastArg.dir \in DOMAIN fs)
    => lastOk

\* C19: every frame render produces is cleared to black and presented, and
\* the quad is drawn only when a texture is bound.
C19_RenderFrame ==
  frame # None =>
    /\ frame[1].cleared
    /\ frame[1].presented
    /\ frame[1].drawn => frame[1].bound

\* C20: a redraw request is rendered and a reload uploads a texture only
\* when the GPU resources have been created.
C20_GpuOpsNeedGpu ==
  (lastEvent.kind = "redraw" \/ lastReload \in {"loaded", "panic"}) => gpu

\* C21: only a resumed signal that finds no window creates the window, runs
\* GPU initialisation and the first reload; a resumed signal that finds the
\* window changes nothing, whether GPU initialisation had succeeded or
\* failed; no other step creates the window or the GPU resources.
C21_InitialisedOnce ==
  [][ /\ (lastEvent'.kind = "resumed" /\ window) =>
           /\ UNCHANGED SessionFields
           /\ lastReload' = "none"
           /\ lastConfigure' = None
           /\ resident' = resident
      /\ (window' # window \/ gpu' # gpu) =>
           /\ lastEvent'.kind = "resumed"
           /\ ~window
           /\ ~gpu
    ]_vars

\* a second resumed signal, on which the host would have initialised the
\* GPU, reached a viewer whose GPU initialisation had failed
C21_Witness ==
  /\ lastEvent = [kind |-> "resumed", outcome |-> "ok"]
  /\ window
  /\ ~gpu
  /\ phase = "viewer"

\* C22: after a texture upload the size the sizing policy gives for the
\* image is both the size of the window-resize request and the surface
\* configuration.
C22_SizeAppliedToBoth ==
  Sized =>
    /\ requested = Some(NewSize(ImageW, ImageH, min_window_size, desktop_size))
    /\ config = requested

\* C23: a host resize event to (w, h) goes straight to resize: on an
\* initialised viewer the surface configuration becomes (w, h) when both
\* are positive and stays otherwise; no window-resize request is issued (the
\* sizing policy is not run), and the cursor, the catalog, the bound texture
\* and the title are unchanged.
C23_HostResizeDirect ==
  [][ lastEvent'.kind = "resized" =>
        LET w == lastEvent'.size[1]
            h == lastEvent'.size[2]
        IN  /\ config' = IF w > 0 /\ h > 0 /\ gpu THEN Some(<<w, h>>) ELSE config
            /\ UNCHANGED <<requested, lastImage, images, current_index,
                           current_texture, title, resident>>
            /\ lastReload' = "none"
    ]_vars

\* a host resize to 640x480 of a viewer that shows the 200x100 image in a
\* window it had asked to be 800x400
C23_Witness ==
  /\ lastEvent = [kind |-> "resized", size |-> <<640, 480>>]
  /\ config = Some(<<640, 480>>)
  /\ requested = Some(<<800, 400>>)
  /\ current_texture # None

\* C24: at most one texture is alive, and it is the bound one; a successful
\* reload binds the texture of the file at the cursor; every other step
\* leaves the bound texture and the number of textures as they are.
C24_OneResidentTexture ==
  [][ /\ resident' <= 1
      /\ resident' = (IF current_texture' # None THEN 1 ELSE 0)
      /\ lastReload' = "loaded" =>
           current_texture'[1].src = images'[current_index' + 1].path
      /\ lastReload' # "loaded" =>
           UNCHANGED <<current_texture, resident>>
    ]_vars

\* a retreat key replaced the texture of another file by that of the first
\* of three
C24_Witness ==
  /\ lastOp = "previous"
  /\ lastReload = "loaded"
  /\ Len(images) = 3
  /\ current_index = 0
  /\ resident = 1

\* C29: for every image of at least 1x1 the size the sizing policy gives has
\* a width and a height of at least 1.
C29_OutputNeverZero == Sized => OutW >= 1 /\ OutH >= 1

EveryOrderSame ==
  \A o \in Orders(ScannedDir) :
    sort_images(sort_algorithm, Collect(lastArg.dir, o)) = images

\* C25: under CreatedTime and ModifiedTime a populate stores the same
\* sequence for every order in which the host enumerates the entries, also
\* with equal or absent timestamps, and the records without a timestamp
\* come before those with one.
C25_TimeOrderDeterministic ==
  (PopulateRan /\ sort_algorithm \in {"CreatedTime", "ModifiedTime"}) =>
    /\ EveryOrderSame
    /\ \A i, j \in 1..Len(images) :
         LET ti == IF sort_algorithm = "CreatedTime" THEN images[i].created
                                                     ELSE images[i].modified
             tj == IF sort_algorithm = "CreatedTime" THEN images[j].created
                                                     ELSE images[j].modified
         IN  (ti # None /\ tj = None) => j < i

\* the name is a digit run
AllDigits(s) == s # <<>> /\ \A i \in 1..Len(s) : IsAsciiDigit(s[i])

\* C26: two digit runs compare as their numeric values with leading zeros
\* ignored, whatever their length.
C26_DigitRunsByValue ==
  (orderings # None /\ AllDigits(names[1]) /\ AllDigits(names[2])) =>
    orderings[1].ab = NumCmp(StripZeros(names[1]), StripZeros(names[2]))

\* C27: under FileNameNatural a populate stores the same sequence for every
\* order in which the host enumerates the entries: no two stored names
\* compare Equal.
C27_NaturalOrderDeterministic ==
  (PopulateRan /\ sort_algorithm = "FileNameNatural") =>
    /\ EveryOrderSame
    /\ \A i, j \in 1..Len(images) :
         natural_sort_compare(images[i].name, images[j].name) = "Equal" => i = j

\* Ordering::reverse
Reverse(o) ==
  CASE o = "Less" -> "Greater" [] o = "Greater" -> "Less" [] OTHER -> "Equal"

\* C28: natural_sort_compare is a consistent ordering: compare(a, b) is the
\* reverse of compare(b, a), and compare(a, b) != Greater with
\* compare(b, c) != Greater gives compare(a, c) != Greater.
C28_ConsistentOrdering ==
  orderings # None =>
    /\ orderings[1].ab = Reverse(orderings[1].ba)
    /\ (orderings[1].ab # "Greater" /\ orderings[1].bc # "Greater")
         => orderings[1].ac # "Greater"

\* the comparator ordered a name starting below '0', a digit run with a
\* leading zero and a digit run followed by a letter
C28_Witness ==
  /\ names = <<(<<"-">>), <<"0", "1">>, <<"1", "a">>>>
  /\ orderings = Some([ab |-> "Less", ba |-> "Greater", bc |-> "Less", ac |-> "Less"])

====
